---- MODULE Spec2Model ----
(***************************************************************************)
(* Model of the ingestion pipeline of kb_engine_playground                 *)
(* (src/src/ingestion/pipeline.py, with the helpers it calls in            *)
(* src/src/ingestion/store.py and src/src/ingestion/loaders.py).           *)
(*                                                                         *)
(* A text (str) is a sequence of one-character strings.  A Document is a   *)
(* record [page_content, metadata] whose metadata field is a reference     *)
(* (an index into heap) to a dict object, so that two Documents can hold   *)
(* the same dict or two equal dicts.                                       *)
(*                                                                         *)
(* Three specifications:                                                   *)
(*   Spec        run_pipeline, with the heartbeat threads it starts;       *)
(*   FairSpec    Spec with the scheduling fairness of the threads;         *)
(*   SpecResplit the re-split step and the invariant check of              *)
(*               run_pipeline (lines 130-146), started on every chunk list *)
(*               within the bounds.                                        *)
(***************************************************************************)
EXTENDS Integers, Sequences, FiniteSets, TLC

(***************************************************************************)
(* Program constants.                                                      *)
(***************************************************************************)
\* store.py:15, the default of EMBED_MAX_CHARS
EMBED_MODEL_MAX_CHARS == 500
\* pipeline.py:81
EMBED_BATCH_SIZE == 50
\* pipeline.py:114 and store.py:68, max(50, size // 10)
MIN_OVERLAP == 50

(***************************************************************************)
(* Bounds of the model.                                                    *)
(***************************************************************************)
\* SpecResplit: symbols of an input chunk list (its characters plus one per chunk)
MaxInput == 7
\* the small values of EMBED_MAX_CHARS tried besides the default: 1..MaxMaxChars
MaxMaxChars == 3
\* Spec: documents a load returns
MaxDocs == 2
\* Spec: length of the short document bodies
MaxDocLen == 2
\* Spec: length of the long document body; one load returns at most LongDocLen + 1
\* symbols (its characters plus one per document)
LongDocLen == 120

\* the most documents handed to _chunk_documents_with_language_awareness on its own
MaxGroupDocs == 4

VARIABLES
    max_chars,      \* EMBED_MODEL_MAX_CHARS as read from the environment
    copies,         \* whether the installed Document constructor copies the metadata dict
    chunk_size,     \* run_pipeline's argument (None or an int)
    chunk_overlap,  \* run_pipeline's argument (None or an int)
    heap,           \* the dict objects: heap[r] is the dict that reference r names
    docs,           \* run_pipeline's docs
    split_chunks,   \* the list _chunk_documents_with_language_awareness returned
    chunks,         \* run_pipeline's chunks
    oversize,       \* run_pipeline's oversize (indices, 0-based)
    pc,             \* where the main thread is in run_pipeline
    pending,        \* the exception travelling through a finally clause
    raised,         \* the exception run_pipeline ended with
    i,              \* the batch loop's i
    calls,          \* the batch numbers add_documents was called with, in order
    stored,         \* the batches add_documents stored, in order
    done_log,       \* the "batch k/n done (d/t chunks)" lines printed
    err_log,        \* the "[ERROR] Batch k/n failed" lines printed
    built,          \* the collaborators constructed so far (embedding, vector_store)
    threads,        \* the heartbeat threads started, in order
    mutated,        \* the chunk whose metadata the caller changed afterwards (0: none)
    steps,          \* the calls run_pipeline has made so far, in order
    lang_calls,     \* the calls of get_language_from_metadata on their own: argument, result
    by_lang         \* the groups of _chunk_documents_with_language_awareness, in the
                    \* order of by_lang.items(), each with the splitter built for it

vars == <<max_chars, copies, chunk_size, chunk_overlap, heap, docs, split_chunks,
          chunks, oversize, pc, pending, raised, i, calls, stored, done_log,
          err_log, built, threads, mutated, steps, lang_calls, by_lang>>

\* None where a string is expected
None == "None"

\* None where an int is expected (chunk_size, chunk_overlap)
NoInt == -1

(***************************************************************************)
(* Python built-ins the code uses.                                         *)
(***************************************************************************)
Min(a, b) == IF a <= b THEN a ELSE b

Max(a, b) == IF a >= b THEN a ELSE b

\* characters str.strip() removes
Whitespace == {" ", "\n", "\t"}

\* the characters texts are built from
Chars == {"a", "b", " "}

\* content[lo:hi] for 0 <= lo, 0 <= hi
Slice(content, lo, hi) == SubSeq(content, lo + 1, Min(hi, Len(content)))

RECURSIVE LStrip(_)
LStrip(s) ==
    IF s # <<>> /\ Head(s) \in Whitespace THEN LStrip(Tail(s)) ELSE s

RECURSIVE RStrip(_)
RStrip(s) ==
    IF s # <<>> /\ s[Len(s)] \in Whitespace THEN RStrip(SubSeq(s, 1, Len(s) - 1)) ELSE s

\* str.strip()
Strip(s) == RStrip(LStrip(s))

\* bool(piece.strip())
Truthy(s) == s # <<>>

\* d[k] = v on a dict
DictSet(d, k, v) == [x \in DOMAIN d \cup {k} |-> IF x = k THEN v ELSE d[x]]

\* s * n for a one-character text
Rep(c, n) == [k \in 1..n |-> c]

(***************************************************************************)
(* _resplit_oversize_chunks (pipeline.py:57-77).                           *)
(*                                                                         *)
(* The loops are computed in two passes: first what is appended to result  *)
(* (the chunk itself, or one new Document per kept piece, still naming the *)
(* parent's dict), then the dict each new Document holds.                  *)
(***************************************************************************)
\* a slip: < for <=
FitsStrict(content, mc) == Len(content) < mc

\* len(content) <= max_chars, line 69
Fits(content, mc) == Len(content) <= mc

\* range(0, len(content), max_chars)[k], k counted from 0, line 73
Start(k, mc) == k * mc

\* a slip: the last, shorter window is left out
NumStartsFloor(content, mc) == Len(content) \div mc

\* len(range(0, len(content), max_chars)), line 73
NumStarts(content, mc) == (Len(content) + mc - 1) \div mc

\* a slip: the end of the slice taken as inclusive
PieceInclusiveEnd(content, start, mc) == Slice(content, start, start + mc + 1)

\* content[start : start + max_chars], line 74
Piece(content, start, mc) == Slice(content, start, start + mc)

\* a slip: pieces that begin or end with whitespace are dropped as well
KeptIfTrimmed(piece) == Truthy(piece) /\ Strip(piece) = piece

\* if piece.strip(), line 75
Kept(piece) == Truthy(Strip(piece))

\* the pieces the loop of lines 73-76 appends, in order
KeptPieces(content, mc) ==
    SelectSeq([k \in 1..NumStarts(content, mc) |-> Piece(content, Start(k - 1, mc), mc)],
              Kept)

\* what one pass of the loop of lines 67-76 appends; fresh marks a Document line 76 builds
Appended(doc, mc) ==
    IF Fits(doc.page_content, mc)
    THEN <<[page_content |-> doc.page_content, metadata |-> doc.metadata, fresh |-> FALSE]>>
    ELSE LET pieces == KeptPieces(doc.page_content, mc)
         IN [k \in 1..Len(pieces) |->
                [page_content |-> pieces[k], metadata |-> doc.metadata, fresh |-> TRUE]]

\* a slip: every pass puts what it emits at the front of result
RECURSIVE ResplitLoopReversed(_, _, _, _)
ResplitLoopReversed(chs, mc, lo, hi) ==
    IF lo > hi THEN <<>>
    ELSE IF lo = hi THEN Appended(chs[lo], mc)
    ELSE ResplitLoopReversed(chs, mc, (lo + hi) \div 2 + 1, hi)
            \o ResplitLoopReversed(chs, mc, lo, (lo + hi) \div 2)

\* for doc in chunks: the passes lo..hi in order (as two halves, to nest less deeply)
RECURSIVE ResplitLoop(_, _, _, _)
ResplitLoop(chs, mc, lo, hi) ==
    IF lo > hi THEN <<>>
    ELSE IF lo = hi THEN Appended(chs[lo], mc)
    ELSE ResplitLoop(chs, mc, lo, (lo + hi) \div 2)
            \o ResplitLoop(chs, mc, (lo + hi) \div 2 + 1, hi)

IsFresh(d) == d.fresh

\* how many of the first n entries line 76 built
FreshUpTo(res, n) == Len(SelectSeq(SubSeq(res, 1, n), IsFresh))

(***************************************************************************)
(* Document(page_content=piece, metadata=doc.metadata), line 76.  The      *)
(* constructor belongs to langchain_core: a pydantic-v2 build validates    *)
(* the dict into a new dict, a pydantic-v1 build stores the dict it was    *)
(* given.  NewMetadata is the reference the n-th entry of res holds when   *)
(* the heap had size hl before the call.                                   *)
(***************************************************************************)
NewMetadata(res, n, hl) ==
    IF res[n].fresh /\ copies THEN hl + FreshUpTo(res, n) ELSE res[n].metadata

\* the dicts the call creates, in order
NewDicts(res, h) ==
    IF copies
    THEN LET made == SelectSeq(res, IsFresh)
         IN [k \in 1..Len(made) |-> h[made[k].metadata]]
    ELSE <<>>

\* the call: the list returned and the heap after it
ResplitOversizeChunks(chs, mc, h) ==
    LET res == ResplitLoop(chs, mc, 1, Len(chs))
    IN [heap |-> h \o NewDicts(res, h),
        result |-> [n \in 1..Len(res) |->
                       [page_content |-> res[n].page_content,
                        metadata |-> NewMetadata(res, n, Len(h))]]]

\* [i for i, d in enumerate(chunks) if len(d.page_content) > max_chars], line 141
Oversize(chs, mc) == {k \in 0..(Len(chs) - 1) : Len(chs[k + 1].page_content) > mc}

(***************************************************************************)
(* get_language_from_metadata (store.py:78-93).                            *)
(***************************************************************************)
UpperCase == <<"A", "B", "D", "M", "R", "S", "T">>

LowerCase == <<"a", "b", "d", "m", "r", "s", "t">>

\* str.lower() on one character
LowerChar(c) ==
    IF \E k \in 1..Len(UpperCase) : UpperCase[k] = c
    THEN LowerCase[CHOOSE k \in 1..Len(UpperCase) : UpperCase[k] = c]
    ELSE c

\* str.lower()
Lower(s) == [k \in 1..Len(s) |-> LowerChar(s[k])]

\* metadata.get(k) or ""
GetOrEmpty(d, k) == IF k \in DOMAIN d /\ d[k] # None THEN d[k] ELSE <<>>

\* a slip: split(sep, 1)[-1], the text after the first sep
SplitAfterFirst(s, sep) ==
    IF \E k \in 1..Len(s) : s[k] = sep
    THEN LET first == CHOOSE k \in 1..Len(s) :
                         s[k] = sep /\ \A j \in 1..(k - 1) : s[j] # sep
         IN SubSeq(s, first + 1, Len(s))
    ELSE s

\* s.rsplit(sep, 1)[-1]: the text after the last sep (all of s when it has none)
RSplitLast(s, sep) ==
    IF \E k \in 1..Len(s) : s[k] = sep
    THEN LET last == CHOOSE k \in 1..Len(s) :
                        s[k] = sep /\ \A j \in (k + 1)..Len(s) : s[j] # sep
         IN SubSeq(s, last + 1, Len(s))
    ELSE s

\* s.split(sep)[0]: the text before the first sep (all of s when it has none)
SplitFirst(s, sep) ==
    IF \E k \in 1..Len(s) : s[k] = sep
    THEN LET first == CHOOSE k \in 1..Len(s) :
                         s[k] = sep /\ \A j \in 1..(k - 1) : s[j] # sep
         IN SubSeq(s, 1, first - 1)
    ELSE s

\* _EXT_TO_LANGUAGE.get(ext), store.py:78-82
ExtToLanguage(ext) ==
    IF ext = <<".", "m", "d">> THEN "MARKDOWN"
    ELSE IF ext = <<".", "m", "a", "r", "k", "d", "o", "w", "n">> THEN "MARKDOWN"
    ELSE IF ext = <<".", "r", "s", "t">> THEN "RST"
    ELSE None

\* store.py:86-93
GetLanguageFromMetadata(metadata) ==
    LET ext0 == Lower(Strip(GetOrEmpty(metadata, "file_extension")))
        source == Strip(GetOrEmpty(metadata, "source"))
        ext == IF ext0 # <<>> THEN ext0
               ELSE IF \E k \in 1..Len(source) : source[k] = "."
               THEN <<".">> \o Lower(SplitFirst(SplitFirst(RSplitLast(source, "."), "/"), "?"))
               ELSE ext0
    IN IF ext # <<>> THEN ExtToLanguage(ext) ELSE None

(***************************************************************************)
(* _chunk_documents_with_language_awareness (pipeline.py:34-54).           *)
(***************************************************************************)
\* key = lang if lang is not None else "default", lines 42-43
LangKey(h, d) ==
    LET lang == GetLanguageFromMetadata(h[d.metadata])
    IN IF lang # None THEN lang ELSE "default"

\* the keys of by_lang in insertion order, lines 40-44
RECURSIVE KeyOrder(_, _, _, _)
KeyOrder(h, ds, n, acc) ==
    IF n > Len(ds) THEN acc
    ELSE KeyOrder(h, ds, n + 1,
                  IF \E k \in 1..Len(acc) : acc[k] = LangKey(h, ds[n])
                  THEN acc ELSE Append(acc, LangKey(h, ds[n])))

\* a slip: by_lang.setdefault(key, []).insert(0, d)
RECURSIVE GroupPrepend(_, _, _, _, _)
GroupPrepend(h, ds, key, n, acc) ==
    IF n > Len(ds) THEN acc
    ELSE GroupPrepend(h, ds, key, n + 1,
                      IF LangKey(h, ds[n]) = key THEN <<n>> \o acc ELSE acc)

\* by_lang[key]: the positions in docs of the group's documents, in input order
RECURSIVE Group(_, _, _, _, _)
Group(h, ds, key, n, acc) ==
    IF n > Len(ds) THEN acc
    ELSE Group(h, ds, key, n + 1,
               IF LangKey(h, ds[n]) = key THEN Append(acc, n) ELSE acc)

(***************************************************************************)
(* splitter.split_documents (langchain_text_splitters), as the spec's      *)
(* section 4.2 step 2 describes it: the text is packed greedily into       *)
(* pieces of at most chunk_size characters, except that a run in which no  *)
(* separator matches comes back whole, however long.  Pieces are stripped  *)
(* and empty ones dropped; each chunk gets a copy of the document's        *)
(* metadata.  how = "packed" or "whole".                                    *)
(***************************************************************************)
\* the pieces of width w of text, stripped, the empty ones dropped
Windows(text, w) ==
    LET n == (Len(text) + w - 1) \div w
        all == [k \in 1..n |-> Strip(Slice(text, (k - 1) * w, k * w))]
    IN SelectSeq(all, Truthy)

SplitText(text, size, how) ==
    IF how = "whole" THEN Windows(text, Max(Len(text), 1))
    ELSE Windows(text, size)

\* the chunks of one document appended to st, each with its own copy of the metadata
EmitPieces(st, pieces, m) ==
    [heap |-> st.heap \o [k \in 1..Len(pieces) |-> st.heap[m]],
     result |-> st.result \o [k \in 1..Len(pieces) |->
                                 [page_content |-> pieces[k],
                                  metadata |-> Len(st.heap) + k]]]

\* chunks.extend(splitter.split_documents(group)), line 53; hows[n] is how docs[n] splits
RECURSIVE SplitGroup(_, _, _, _, _, _)
SplitGroup(st, ds, group, size, hows, n) ==
    IF n > Len(group) THEN st
    ELSE SplitGroup(EmitPieces(st, SplitText(ds[group[n]].page_content, size, hows[group[n]]),
                               ds[group[n]].metadata),
                    ds, group, size, hows, n + 1)

\* for key, group in by_lang.items(): ..., lines 45-53
RECURSIVE SplitGroups(_, _, _, _, _, _)
SplitGroups(st, ds, keys, size, hows, n) ==
    IF n > Len(keys) THEN st
    ELSE SplitGroups(SplitGroup(st, ds, Group(st.heap, ds, keys[n], 1, <<>>), size, hows, 1),
                     ds, keys, size, hows, n + 1)

\* the call: the list returned and the heap after it
ChunkDocuments(h, ds, size, hows) ==
    SplitGroups([heap |-> h, result |-> <<>>], ds, KeyOrder(h, ds, 1, <<>>), size, hows, 1)

\* get_text_splitter, store.py:62-74
GetTextSplitter(size, overlap) ==
    [separators |-> "default",
     chunk_size |-> IF size # NoInt THEN size ELSE EMBED_MODEL_MAX_CHARS,
     chunk_overlap |-> IF overlap # NoInt THEN overlap
                       ELSE Max(MIN_OVERLAP,
                                (IF size # NoInt THEN size ELSE EMBED_MODEL_MAX_CHARS) \div 10)]

\* get_text_splitter_for_language, store.py:96-110
GetTextSplitterForLanguage(language, size, overlap) ==
    IF language # None
    THEN [separators |-> language,
          chunk_size |-> IF size # NoInt THEN size ELSE EMBED_MODEL_MAX_CHARS,
          chunk_overlap |-> IF overlap # NoInt THEN overlap
                            ELSE Max(MIN_OVERLAP,
                                     (IF size # NoInt THEN size ELSE EMBED_MODEL_MAX_CHARS)
                                         \div 10)]
    ELSE GetTextSplitter(size, overlap)

\* the splitter of lines 46-52
SplitterFor(key, size, overlap) ==
    IF key # "default" THEN GetTextSplitterForLanguage(key, size, overlap)
    ELSE GetTextSplitter(size, overlap)

\* by_lang.items() at line 45, each group with the splitter lines 46-52 build for it
ByLang(h, ds, size, overlap) ==
    LET keys == KeyOrder(h, ds, 1, <<>>)
    IN [n \in 1..Len(keys) |->
           [key |-> keys[n],
            group |-> Group(h, ds, keys[n], 1, <<>>),
            splitter |-> SplitterFor(keys[n], size, overlap)]]

(***************************************************************************)
(* The inputs.                                                             *)
(***************************************************************************)
(***************************************************************************)
\* the values EMBED_MAX_CHARS takes: small ones, and the default
MaxCharsChoices == (1..MaxMaxChars) \cup {EMBED_MODEL_MAX_CHARS}

\* a file the GitHub loader returned (loaders.py:123-129 sets file_extension)
MetaGithub ==
    [source_id |-> 1, source |-> <<"x", ".", "m", "d">>, file_extension |-> <<".", "m", "d">>]

\* a page the web loader returned
MetaWeb == [source_id |-> 2, source |-> <<"h", "/", "p">>]

\* the bodies: an empty one, a short one and a long one
DocTexts == {Rep("a", n) : n \in {0, MaxDocLen, LongDocLen}}

DocSet == [page_content : DocTexts, metadata : {MetaGithub, MetaWeb}]

RECURSIVE TotalLen(_)
TotalLen(ds) == IF ds = <<>> THEN 0 ELSE Len(Head(ds).page_content) + TotalLen(Tail(ds))

\* what load_all_documents can return
LoadChoices ==
    {ds \in UNION {[1..n -> DocSet] : n \in 0..MaxDocs} :
        TotalLen(ds) + Len(ds) <= LongDocLen + 1}

\* a chunk list written as one text, every chunk followed by "|"
RECURSIVE ParseChunks(_, _, _)
ParseChunks(s, cur, acc) ==
    IF s = <<>> THEN acc
    ELSE IF Head(s) = "|" THEN ParseChunks(Tail(s), <<>>, Append(acc, cur))
    ELSE ParseChunks(Tail(s), Append(cur, Head(s)), acc)

\* every list of texts whose characters and chunks together number at most MaxInput
TextLists ==
    {ParseChunks(s, <<>>, <<>>) :
        s \in {x \in UNION {[1..n -> Chars \cup {"|"}] : n \in 0..MaxInput} :
                  x = <<>> \/ x[Len(x)] = "|"}}

\* the spec's scenario 7: 1200 characters without whitespace
Scenario7 == <<Rep("a", 1200)>>

\* the names of extensions: none, the mapped ones in both cases, an unmapped one
ExtNames ==
    {<<>>, <<"m", "d">>, <<"M", "D">>, <<"m", "a", "r", "k", "d", "o", "w", "n">>,
     <<"r", "s", "t">>, <<"R", "S", "T">>, <<"t", "x", "t">>}

Padding == {<<>>, <<" ">>}

Dots == {<<>>, <<".">>}

\* the values of file_extension: with and without the dot, padded with blanks or not
FileExtensionTexts ==
    {pre \o dot \o e \o post : pre \in Padding, dot \in Dots, e \in ExtNames, post \in Padding}

\* what precedes the extension in a path or URL
Stems == {<<>>, <<"a">>, <<"a", ".", "b", "/", "c">>, <<"h", "/">>}

\* what follows it: a path segment, a query string, both
Suffixes ==
    {<<>>, <<"/", "x">>, <<"?", "q">>, <<"?", "q", "/", "x">>, <<"/", "x", "?", "q">>}

\* the values of source
SourceTexts ==
    {pre \o stem \o dot \o e \o suf \o post :
        pre \in Padding, stem \in Stems, dot \in Dots, e \in ExtNames,
        suf \in Suffixes, post \in Padding}

\* a key of the dict: missing, None, or a text
FieldChoices(texts) ==
    {<<"missing", <<>>>>, <<"none", <<>>>>} \cup {<<"str", t>> : t \in texts}

\* the dict with those two keys
MakeMetadata(fe, src) ==
    LET keys == {"source_id"} \cup (IF fe[1] = "missing" THEN {} ELSE {"file_extension"})
                              \cup (IF src[1] = "missing" THEN {} ELSE {"source"})
    IN [k \in keys |->
           IF k = "source_id" THEN 1
           ELSE IF k = "file_extension" THEN (IF fe[1] = "none" THEN None ELSE fe[2])
           ELSE (IF src[1] = "none" THEN None ELSE src[2])]

\* the dicts get_language_from_metadata is called with
LangMetadata ==
    {MakeMetadata(fe, src) : fe \in FieldChoices(FileExtensionTexts),
                             src \in FieldChoices(SourceTexts)}

(***************************************************************************)
(* run_pipeline (pipeline.py:102-179).                                     *)
(***************************************************************************)
\* size = chunk_size if chunk_size is not None else max_chars, line 113
Size == IF chunk_size # NoInt THEN chunk_size ELSE max_chars

\* overlap = ... else max(50, size // 10), line 114
Overlap == IF chunk_overlap # NoInt THEN chunk_overlap ELSE Max(MIN_OVERLAP, Size \div 10)

\* total = len(chunks), line 154
Total == Len(chunks)

\* num_batches, line 155
NumBatches == (Total + EMBED_BATCH_SIZE - 1) \div EMBED_BATCH_SIZE

\* a slip: the end of the slice taken as inclusive
BatchInclusiveEnd == Slice(chunks, i, i + EMBED_BATCH_SIZE + 1)

\* batch = chunks[i : i + EMBED_BATCH_SIZE], line 161
Batch == Slice(chunks, i, i + EMBED_BATCH_SIZE)

\* batch_num, line 162
BatchNum == (i \div EMBED_BATCH_SIZE) + 1

\* the thread of the with block the main thread is in
Current == Len(threads)

(***************************************************************************)
(* _heartbeat_while (pipeline.py:85-99).                                   *)
(***************************************************************************)
\* stop = Event(); t = Thread(...); t.start(), lines 88-95
HeartbeatStart(block) ==
    Append(threads, [block |-> block, st |-> "wait", stop |-> FALSE])

\* a slip: the finally clause missing, the flag is never set
HeartbeatNeverStopped == threads

\* finally: stop.set(), lines 98-99
HeartbeatStop == [threads EXCEPT ![Current].stop = TRUE]

\* stop.wait(interval_sec) returns False: the interval passed with the flag unset, line 91
HbTimeout(t) ==
    /\ threads[t].st = "wait"
    /\ ~threads[t].stop
    /\ threads' = [threads EXCEPT ![t].st = "print"]
    /\ UNCHANGED <<max_chars, copies, chunk_size, chunk_overlap, heap, docs, split_chunks,
                   chunks, oversize, pc, pending, raised, i, calls, stored, done_log,
                   err_log, built, mutated, steps, lang_calls, by_lang>>

\* print(f"  [heartbeat] {message}"), line 92
HbPrint(t) ==
    /\ threads[t].st = "print"
    /\ threads' = [threads EXCEPT ![t].st = "wait"]
    /\ UNCHANGED <<max_chars, copies, chunk_size, chunk_overlap, heap, docs, split_chunks,
                   chunks, oversize, pc, pending, raised, i, calls, stored, done_log,
                   err_log, built, mutated, steps, lang_calls, by_lang>>

\* stop.wait(interval_sec) returns True: the loop and the thread end, line 91
HbExit(t) ==
    /\ threads[t].st = "wait"
    /\ threads[t].stop
    /\ threads' = [threads EXCEPT ![t].st = "done"]
    /\ UNCHANGED <<max_chars, copies, chunk_size, chunk_overlap, heap, docs, split_chunks,
                   chunks, oversize, pc, pending, raised, i, calls, stored, done_log,
                   err_log, built, mutated, steps, lang_calls, by_lang>>

(***************************************************************************)
(* The main thread.                                                        *)
(***************************************************************************)
\* lines 112-119: the with block of the load is entered
EnterLoad ==
    /\ pc = "start"
    /\ threads' = HeartbeatStart(0)
    /\ pc' = "load"
    /\ UNCHANGED <<max_chars, copies, chunk_size, chunk_overlap, heap, docs, split_chunks,
                   chunks, oversize, pending, raised, i, calls, stored, done_log,
                   err_log, built, mutated, steps, lang_calls, by_lang>>

\* line 120: load_all_documents returns
LoadReturn ==
    /\ pc = "load"
    /\ \E ds \in LoadChoices :
        /\ heap' = [k \in 1..Len(ds) |-> ds[k].metadata]
        /\ docs' = [k \in 1..Len(ds) |->
                       [page_content |-> ds[k].page_content, metadata |-> k]]
    /\ pc' = "load_exit"
    /\ steps' = Append(steps, "load")
    /\ UNCHANGED <<max_chars, copies, chunk_size, chunk_overlap, split_chunks,
                   chunks, oversize, pending, raised, i, calls, stored, done_log,
                   err_log, built, threads, mutated, lang_calls, by_lang>>

\* line 120: load_all_documents raises: a ValueError of load_documents_for_source
\* (loaders.py:82-131), or an error of the fetch
LoadRaise ==
    /\ pc = "load"
    /\ \E e \in {"ValueError", "IOError"} : pending' = e
    /\ pc' = "load_exit"
    /\ steps' = Append(steps, "load")
    /\ UNCHANGED <<max_chars, copies, chunk_size, chunk_overlap, heap, docs, split_chunks,
                   chunks, oversize, raised, i, calls, stored, done_log,
                   err_log, built, threads, mutated, lang_calls, by_lang>>

\* a slip: lines 123-125 missing, an empty load goes on to the chunking
ExitLoadNoReturn ==
    /\ pc = "load_exit"
    /\ threads' = [threads EXCEPT ![Len(threads)].stop = TRUE]
    /\ IF pending # None
       THEN raised' = pending /\ pc' = "raised"
       ELSE raised' = raised /\ pc' = "chunk"
    /\ pending' = None
    /\ UNCHANGED <<max_chars, copies, chunk_size, chunk_overlap, heap, docs, split_chunks,
                   chunks, oversize, i, calls, stored, done_log,
                   err_log, built, mutated, steps, lang_calls, by_lang>>

\* the with block ends (finally: stop.set()), then lines 121-125
ExitLoad ==
    /\ pc = "load_exit"
    /\ threads' = HeartbeatStop
    /\ IF pending # None
       THEN raised' = pending /\ pc' = "raised"
       ELSE raised' = raised /\ pc' = (IF docs = <<>> THEN "returned" ELSE "chunk")
    /\ pending' = None
    /\ UNCHANGED <<max_chars, copies, chunk_size, chunk_overlap, heap, docs, split_chunks,
                   chunks, oversize, i, calls, stored, done_log,
                   err_log, built, mutated, steps, lang_calls, by_lang>>

\* lines 127-128.  RecursiveCharacterTextSplitter refuses an overlap above the chunk size.
ChunkStep ==
    /\ pc = "chunk"
    /\ IF Overlap > Size
       THEN /\ raised' = "ValueError"
            /\ pc' = "raised"
            /\ UNCHANGED <<heap, chunks, split_chunks>>
       ELSE \E hows \in [1..Len(docs) -> {"packed", "whole"}] :
              LET r == ChunkDocuments(heap, docs, Size, hows)
              IN /\ heap' = r.heap
                 /\ chunks' = r.result
                 /\ split_chunks' = r.result
                 /\ raised' = raised
                 /\ pc' = "resplit"
    /\ steps' = Append(steps, "chunk")
    /\ by_lang' = ByLang(heap, docs, Size, Overlap)
    /\ UNCHANGED <<max_chars, copies, chunk_size, chunk_overlap, docs,
                   oversize, pending, i, calls, stored, done_log,
                   err_log, built, threads, mutated, lang_calls>>

\* lines 132-138
ResplitStep ==
    /\ pc = "resplit"
    /\ LET r == ResplitOversizeChunks(chunks, max_chars, heap)
       IN /\ heap' = r.heap
          /\ chunks' = r.result
    /\ pc' = "assert"
    /\ steps' = Append(steps, "resplit")
    /\ UNCHANGED <<max_chars, copies, chunk_size, chunk_overlap, docs, split_chunks,
                   oversize, pending, raised, i, calls, stored, done_log,
                   err_log, built, threads, mutated, lang_calls, by_lang>>

\* a slip: lines 142-146 missing, the list is computed and the run goes on
AssertStepTolerant ==
    /\ pc = "assert"
    /\ oversize' = Oversize(chunks, max_chars)
    /\ pc' = "get_embedding"
    /\ steps' = Append(steps, "check")
    /\ UNCHANGED <<max_chars, copies, chunk_size, chunk_overlap, heap, docs, split_chunks,
                   chunks, pending, raised, i, calls, stored, done_log,
                   err_log, built, threads, mutated, lang_calls, by_lang>>

\* lines 141-146
AssertStep ==
    /\ pc = "assert"
    /\ oversize' = Oversize(chunks, max_chars)
    /\ IF oversize' # {}
       THEN raised' = "AssertionError" /\ pc' = "raised"
       ELSE raised' = raised /\ pc' = "get_embedding"
    /\ steps' = Append(steps, "check")
    /\ UNCHANGED <<max_chars, copies, chunk_size, chunk_overlap, heap, docs, split_chunks,
                   chunks, pending, i, calls, stored, done_log,
                   err_log, built, threads, mutated, lang_calls, by_lang>>

\* line 148: get_embedding_model (store.py:24-40) returns a model or raises ValueError
GetEmbedding ==
    /\ pc = "get_embedding"
    /\ \E supported \in BOOLEAN :
        IF supported
        THEN built' = built \cup {"embedding"} /\ raised' = raised /\ pc' = "get_vector_store"
        ELSE built' = built /\ raised' = "ValueError" /\ pc' = "raised"
    /\ steps' = Append(steps, "get_embedding_model")
    /\ UNCHANGED <<max_chars, copies, chunk_size, chunk_overlap, heap, docs, split_chunks,
                   chunks, oversize, pending, i, calls, stored, done_log,
                   err_log, threads, mutated, lang_calls, by_lang>>

\* lines 149-152: get_vector_store (store.py:43-59) returns a store or raises ValueError
GetVectorStore ==
    /\ pc = "get_vector_store"
    /\ \E url \in BOOLEAN :
        IF url
        THEN built' = built \cup {"vector_store"} /\ raised' = raised /\ pc' = "loop"
        ELSE built' = built /\ raised' = "ValueError" /\ pc' = "raised"
    /\ i' = 0
    /\ steps' = Append(steps, "get_vector_store")
    /\ UNCHANGED <<max_chars, copies, chunk_size, chunk_overlap, heap, docs, split_chunks,
                   chunks, oversize, pending, calls, stored, done_log,
                   err_log, threads, mutated, lang_calls, by_lang>>

\* lines 160-166: the next batch's with block is entered, or the loop ends (line 179)
LoopStep ==
    /\ pc = "loop"
    /\ IF i < Total
       THEN threads' = HeartbeatStart(BatchNum) /\ pc' = "add"
       ELSE threads' = threads /\ pc' = "finished"
    /\ UNCHANGED <<max_chars, copies, chunk_size, chunk_overlap, heap, docs, split_chunks,
                   chunks, oversize, pending, raised, i, calls, stored, done_log,
                   err_log, built, mutated, steps, lang_calls, by_lang>>

\* line 168: vector_store.add_documents(batch) returns
AddReturn ==
    /\ pc = "add"
    /\ calls' = Append(calls, BatchNum)
    /\ stored' = Append(stored, Batch)
    /\ pc' = "batch_exit"
    /\ UNCHANGED <<max_chars, copies, chunk_size, chunk_overlap, heap, docs, split_chunks,
                   chunks, oversize, pending, raised, i, done_log,
                   err_log, built, threads, mutated, steps, lang_calls, by_lang>>

\* a slip: line 176 missing, the error is printed and the loop goes on
AddRaiseSwallowed ==
    /\ pc = "add"
    /\ calls' = Append(calls, BatchNum)
    /\ err_log' = Append(err_log, [batch_num |-> BatchNum, num_batches |-> NumBatches])
    /\ pc' = "batch_exit"
    /\ UNCHANGED <<max_chars, copies, chunk_size, chunk_overlap, heap, docs, split_chunks,
                   chunks, oversize, pending, raised, i, stored, done_log,
                   built, threads, mutated, steps, lang_calls, by_lang>>

\* lines 168-176: vector_store.add_documents(batch) raises; the error is printed and re-raised
AddRaise ==
    /\ pc = "add"
    /\ calls' = Append(calls, BatchNum)
    /\ err_log' = Append(err_log, [batch_num |-> BatchNum, num_batches |-> NumBatches])
    /\ pending' = "Exception"
    /\ pc' = "batch_exit"
    /\ UNCHANGED <<max_chars, copies, chunk_size, chunk_overlap, heap, docs, split_chunks,
                   chunks, oversize, raised, i, stored, done_log,
                   built, threads, mutated, steps, lang_calls, by_lang>>

\* the with block ends (finally: stop.set()), then lines 177-178 and the next i
ExitBatch ==
    /\ pc = "batch_exit"
    /\ threads' = HeartbeatStop
    /\ IF pending # None
       THEN /\ raised' = pending
            /\ pc' = "raised"
            /\ UNCHANGED <<done_log, i>>
       ELSE /\ done_log' = Append(done_log,
                                  [batch_num |-> BatchNum, num_batches |-> NumBatches,
                                   done |-> Min(i + EMBED_BATCH_SIZE, Total), total |-> Total])
            /\ i' = i + EMBED_BATCH_SIZE
            /\ pc' = "loop"
            /\ raised' = raised
    /\ pending' = None
    /\ UNCHANGED <<max_chars, copies, chunk_size, chunk_overlap, heap, docs, split_chunks,
                   chunks, oversize, calls, stored, err_log, built, mutated, steps,
                   lang_calls, by_lang>>

(***************************************************************************)
(* The caller of _resplit_oversize_chunks changes the metadata of one      *)
(* chunk of the list it got back (d.metadata["tag"] = 1).                  *)
(***************************************************************************)
MutateMetadata ==
    /\ pc = "assert"
    /\ mutated = 0
    /\ \E k \in 1..Len(chunks) :
        /\ mutated' = k
        /\ heap' = [heap EXCEPT ![chunks[k].metadata] = DictSet(@, "tag", 1)]
    /\ UNCHANGED <<max_chars, copies, chunk_size, chunk_overlap, docs, split_chunks,
                   chunks, oversize, pc, pending, raised, i, calls, stored, done_log,
                   err_log, built, threads, steps, lang_calls, by_lang>>

(***************************************************************************)
(* The specifications.                                                     *)
(***************************************************************************)
Init ==
    /\ max_chars \in MaxCharsChoices
    /\ copies \in BOOLEAN
    /\ chunk_size \in {NoInt, MaxMaxChars + 1}
    /\ chunk_overlap \in {NoInt, 0}
    /\ heap = <<>>
    /\ docs = <<>>
    /\ split_chunks = <<>>
    /\ chunks = <<>>
    /\ oversize = {}
    /\ pc = "start"
    /\ pending = None
    /\ raised = None
    /\ i = 0
    /\ calls = <<>>
    /\ stored = <<>>
    /\ done_log = <<>>
    /\ err_log = <<>>
    /\ built = {}
    /\ threads = <<>>
    /\ mutated = 0
    /\ steps = <<>>
    /\ lang_calls = <<>>
    /\ by_lang = <<>>

HbTimeoutStep == \E t \in 1..Len(threads) : HbTimeout(t)

HbPrintStep == \E t \in 1..Len(threads) : HbPrint(t)

HbExitStep == \E t \in 1..Len(threads) : HbExit(t)

HeartbeatStep == HbTimeoutStep \/ HbPrintStep \/ HbExitStep

MainStep ==
    \/ EnterLoad
    \/ LoadReturn
    \/ LoadRaise
    \/ ExitLoad
    \/ ChunkStep
    \/ ResplitStep
    \/ AssertStep
    \/ GetEmbedding
    \/ GetVectorStore
    \/ LoopStep
    \/ AddReturn
    \/ AddRaise
    \/ ExitBatch

Next == MainStep \/ HeartbeatStep

Spec == Init /\ [][Next]_vars

\* the most threads a run starts: one for the load and one per batch
MaxThreads == 1 + (LongDocLen + EMBED_BATCH_SIZE - 1) \div EMBED_BATCH_SIZE

\* a step of heartbeat thread t
HbStep(t) == t <= Len(threads) /\ (HbTimeout(t) \/ HbPrint(t) \/ HbExit(t))

\* every started heartbeat thread keeps being scheduled
FairSpec == Spec /\ \A t \in 1..MaxThreads : WF_vars(HbStep(t))

\* the state after line 128, for every chunk list within the bounds, and for
\* scenario 7 under the default limit
InitResplit ==
    /\ copies \in BOOLEAN
    /\ chunk_size = NoInt
    /\ chunk_overlap = NoInt
    /\ \E texts \in TextLists \cup {Scenario7} :
        /\ max_chars \in (IF texts = Scenario7 THEN {EMBED_MODEL_MAX_CHARS}
                                               ELSE MaxCharsChoices)
        /\ heap = [k \in 1..Len(texts) |-> [source_id |-> k]]
        /\ chunks = [k \in 1..Len(texts) |-> [page_content |-> texts[k], metadata |-> k]]
    /\ split_chunks = chunks
    /\ docs = <<>>
    /\ oversize = {}
    /\ pc = "resplit"
    /\ pending = None
    /\ raised = None
    /\ i = 0
    /\ calls = <<>>
    /\ stored = <<>>
    /\ done_log = <<>>
    /\ err_log = <<>>
    /\ built = {}
    /\ threads = <<>>
    /\ mutated = 0
    /\ steps = <<"load", "chunk">>
    /\ lang_calls = <<>>
    /\ by_lang = <<>>

NextResplit == ResplitStep \/ AssertStep \/ MutateMetadata

SpecResplit == InitResplit /\ [][NextResplit]_vars

\* the state at line 140 for every chunk list within the bounds, those that
\* _resplit_oversize_chunks does not return included: lines 140-179 on their own
InitAssert ==
    /\ copies = FALSE
    /\ chunk_size = NoInt
    /\ chunk_overlap = NoInt
    /\ max_chars \in MaxCharsChoices
    /\ \E texts \in TextLists :
        /\ heap = [k \in 1..Len(texts) |-> [source_id |-> k]]
        /\ chunks = [k \in 1..Len(texts) |-> [page_content |-> texts[k], metadata |-> k]]
    /\ split_chunks = chunks
    /\ docs = <<>>
    /\ oversize = {}
    /\ pc = "assert"
    /\ pending = None
    /\ raised = None
    /\ i = 0
    /\ calls = <<>>
    /\ stored = <<>>
    /\ done_log = <<>>
    /\ err_log = <<>>
    /\ built = {}
    /\ threads = <<>>
    /\ mutated = 0
    /\ steps = <<"load", "chunk", "resplit">>
    /\ lang_calls = <<>>
    /\ by_lang = <<>>

NextAssert ==
    \/ AssertStep
    \/ GetEmbedding
    \/ GetVectorStore
    \/ LoopStep
    \/ AddReturn
    \/ AddRaise
    \/ ExitBatch
    \/ HeartbeatStep

SpecAssert == InitAssert /\ [][NextAssert]_vars

\* get_language_from_metadata(metadata) is called on dict 1 and returns (store.py:86-93)
GetLanguageStep ==
    /\ pc = "language"
    /\ lang_calls' = Append(lang_calls,
                            [arg |-> heap[1], result |-> GetLanguageFromMetadata(heap[1])])
    /\ pc' = "language_done"
    /\ UNCHANGED <<max_chars, copies, chunk_size, chunk_overlap, heap, docs, split_chunks,
                   chunks, oversize, pending, raised, i, calls, stored, done_log,
                   err_log, built, threads, mutated, steps, by_lang>>

\* one call of get_language_from_metadata, for every dict within the bounds
InitLanguage ==
    /\ max_chars = EMBED_MODEL_MAX_CHARS
    /\ copies = FALSE
    /\ chunk_size = NoInt
    /\ chunk_overlap = NoInt
    /\ \E m \in LangMetadata : heap = <<m>>
    /\ docs = <<>>
    /\ split_chunks = <<>>
    /\ chunks = <<>>
    /\ oversize = {}
    /\ pc = "language"
    /\ pending = None
    /\ raised = None
    /\ i = 0
    /\ calls = <<>>
    /\ stored = <<>>
    /\ done_log = <<>>
    /\ err_log = <<>>
    /\ built = {}
    /\ threads = <<>>
    /\ mutated = 0
    /\ steps = <<>>
    /\ lang_calls = <<>>
    /\ by_lang = <<>>

NextLanguage == GetLanguageStep

SpecLanguage == InitLanguage /\ [][NextLanguage]_vars

\* the metadata of the documents to group: Markdown by file_extension, in upper case, and
\* by the source URL; RST; an unmapped extension; no extension at all
ChunkMetas ==
    {MakeMetadata(<<"str", <<".", "m", "d">>>>, <<"str", <<"a", ".", "m", "d">>>>),
     MakeMetadata(<<"str", <<".", "M", "D">>>>, <<"str", <<"a", ".", "r", "s", "t">>>>),
     MakeMetadata(<<"missing", <<>>>>, <<"str", <<"h", "/", "a", ".", "m", "d", "?", "q">>>>),
     MakeMetadata(<<"str", <<".", "r", "s", "t">>>>, <<"str", <<"a">>>>),
     MakeMetadata(<<"str", <<".", "t", "x", "t">>>>, <<"str", <<"a", ".", "t", "x", "t">>>>),
     MakeMetadata(<<"missing", <<>>>>, <<"str", <<"h", "/", "p">>>>)}

\* the state at line 127 for every list of at most MaxGroupDocs one-character documents
\* with those metadata; document k carries source_id k
InitChunk ==
    /\ max_chars = EMBED_MODEL_MAX_CHARS
    /\ copies = FALSE
    /\ chunk_size = NoInt
    /\ chunk_overlap \in {NoInt, 0}
    /\ \E ms \in UNION {[1..n -> ChunkMetas] : n \in 1..MaxGroupDocs} :
        /\ heap = [k \in 1..Len(ms) |-> DictSet(ms[k], "source_id", k)]
        /\ docs = [k \in 1..Len(ms) |-> [page_content |-> <<"a">>, metadata |-> k]]
    /\ split_chunks = <<>>
    /\ chunks = <<>>
    /\ oversize = {}
    /\ pc = "chunk"
    /\ pending = None
    /\ raised = None
    /\ i = 0
    /\ calls = <<>>
    /\ stored = <<>>
    /\ done_log = <<>>
    /\ err_log = <<>>
    /\ built = {}
    /\ threads = <<>>
    /\ mutated = 0
    /\ steps = <<"load">>
    /\ lang_calls = <<>>
    /\ by_lang = <<>>

NextChunk == ChunkStep \/ ResplitStep \/ AssertStep

SpecChunk == InitChunk /\ [][NextChunk]_vars

(***************************************************************************)
(* Properties.  Under SpecResplit input chunk p holds the dict             *)
(* [source_id |-> p], so the pieces of p are the chunks that carry         *)
(* source_id = p.                                                          *)
(***************************************************************************)
\* _resplit_oversize_chunks has returned
Resplit_Done == pc \notin {"start", "load", "load_exit", "chunk", "resplit"}

\* the invariant check of lines 141-146 has run
Assert_Done == Resplit_Done /\ pc # "assert"

\* the texts of the chunks of the result that come from input chunk p
PiecesOf(p) ==
    LET mine == SelectSeq(chunks, LAMBDA c : heap[c.metadata].source_id = p)
    IN [k \in 1..Len(mine) |-> mine[k].page_content]

\* the texts of ts[lo..hi] joined
RECURSIVE Concat(_, _, _)
Concat(ts, lo, hi) ==
    IF lo > hi THEN <<>>
    ELSE IF lo = hi THEN ts[lo]
    ELSE Concat(ts, lo, (lo + hi) \div 2) \o Concat(ts, (lo + hi) \div 2 + 1, hi)

Join(ts) == Concat(ts, 1, Len(ts))

IsBlank(c) == c \in Whitespace

NonBlank(c) == c \notin Whitespace

AllBlank(t) == \A k \in 1..Len(t) : IsBlank(t[k])

SomeNonBlank(t) == ~AllBlank(t)

\* ceil(a / b)
CeilDiv(a, b) == (a + b - 1) \div b

\* text cut at 0, w, 2w, ... : CeilDiv(Len(text), w) windows, each of w characters but
\* the last, which has the rest
WindowsAt(text, w) ==
    [k \in 1..CeilDiv(Len(text), w) |->
        [j \in 1..(IF k < CeilDiv(Len(text), w) THEN w
                   ELSE Len(text) - w * (CeilDiv(Len(text), w) - 1)) |->
            text[(k - 1) * w + j]]]

\* the input chunks longer than max_chars
OversizeInputs == {p \in 1..Len(split_chunks) : Len(split_chunks[p].page_content) > max_chars}

\* C1: once _resplit_oversize_chunks has returned, every chunk has at most max_chars
\* characters; the oversize list run_pipeline computes is empty and no AssertionError
\* is raised.
C1_SizeInvariant ==
    /\ Resplit_Done => \A k \in 1..Len(chunks) : Len(chunks[k].page_content) <= max_chars
    /\ Assert_Done => oversize = {} /\ raised # "AssertionError"

\* C1 witness: the check has passed on a list in which an input chunk was oversize and
\* was cut into several pieces
C1_Witness ==
    /\ pc = "get_embedding"
    /\ OversizeInputs # {}
    /\ Len(chunks) > Len(split_chunks)

\* C2: the slices emitted for an oversize chunk, joined in output order, are the chunk's
\* text without its all-whitespace windows, and hold as many non-whitespace characters
\* as the chunk.
C2_Lossless ==
    Resplit_Done =>
        \A p \in OversizeInputs :
            LET text == split_chunks[p].page_content
            IN /\ Join(PiecesOf(p)) = Join(SelectSeq(WindowsAt(text, max_chars), SomeNonBlank))
               /\ Len(SelectSeq(Join(PiecesOf(p)), NonBlank)) = Len(SelectSeq(text, NonBlank))

\* C2 witness: an oversize chunk with whitespace in it has been re-split, one of its
\* windows was dropped and one was kept
C2_Witness ==
    /\ Resplit_Done
    /\ \E p \in OversizeInputs :
        /\ \E k \in 1..Len(split_chunks[p].page_content) :
              IsBlank(split_chunks[p].page_content[k])
        /\ Len(PiecesOf(p)) >= 1
        /\ Len(PiecesOf(p)) < CeilDiv(Len(split_chunks[p].page_content), max_chars)

\* C3: the slices emitted for an oversize chunk of length L are exactly its windows at
\* 0, max_chars, 2*max_chars, ... (ceil(L / max_chars) of them, of max_chars characters
\* but the last) that are not empty once stripped; 1200 characters without whitespace
\* under max_chars = 500 give three chunks of 500, 500 and 200 characters.
C3_Windows ==
    Resplit_Done =>
        /\ \A p \in OversizeInputs :
              PiecesOf(p) = SelectSeq(WindowsAt(split_chunks[p].page_content, max_chars),
                                      LAMBDA w : Strip(w) # <<>>)
        /\ (/\ Len(split_chunks) = 1
            /\ Len(split_chunks[1].page_content) = 1200
            /\ \A k \in 1..1200 : NonBlank(split_chunks[1].page_content[k])
            /\ max_chars = 500)
           => [k \in 1..Len(chunks) |-> Len(chunks[k].page_content)] = <<500, 500, 200>>

\* C3 witness: the 1200-character chunk has been re-split under max_chars = 500
C3_Witness ==
    /\ Resplit_Done
    /\ max_chars = 500
    /\ Len(split_chunks) = 1
    /\ Len(split_chunks[1].page_content) = 1200
    /\ Len(chunks) = 3

\* C4: a list whose chunks all fit comes back as it was (the same Documents in the same
\* order), and re-splitting the result of a re-split changes nothing.
C4_Idempotent ==
    Resplit_Done /\ mutated = 0 =>
        /\ OversizeInputs = {} => chunks = split_chunks
        /\ ResplitOversizeChunks(chunks, max_chars, heap).result = chunks

\* C4 witness: a list that fits, with an empty chunk and an all-whitespace chunk in it,
\* has been through the re-split
C4_Witness ==
    /\ Resplit_Done
    /\ OversizeInputs = {}
    /\ \E p \in 1..Len(split_chunks) : split_chunks[p].page_content = <<>>
    /\ \E p \in 1..Len(split_chunks) :
          split_chunks[p].page_content # <<>> /\ AllBlank(split_chunks[p].page_content)

\* the batch numbers 1..n in order
Upto(n) == [k \in 1..n |-> k]

\* the k-th run of EMBED_BATCH_SIZE consecutive chunks (the last run may be shorter)
RunOfChunks(k) ==
    [j \in 1..(IF k * EMBED_BATCH_SIZE <= Len(chunks) THEN EMBED_BATCH_SIZE
               ELSE Len(chunks) - (k - 1) * EMBED_BATCH_SIZE) |->
        chunks[(k - 1) * EMBED_BATCH_SIZE + j]]

\* C5: once add_documents has failed on batch k of n, the run only ends with that error:
\* batches 1..k-1 were each stored and reported done, k/n is what the error line names,
\* add_documents was called once for each of 1..k and for no other batch.
C5_BatchFailure ==
    err_log # <<>> =>
        LET k == err_log[1].batch_num
        IN /\ Len(err_log) = 1
           /\ err_log[1].num_batches = CeilDiv(Len(chunks), EMBED_BATCH_SIZE)
           /\ k \in 1..err_log[1].num_batches
           /\ calls = Upto(k)
           /\ stored = [j \in 1..(k - 1) |-> RunOfChunks(j)]
           /\ [j \in 1..Len(done_log) |-> done_log[j].batch_num] = Upto(k - 1)
           /\ \/ pc = "batch_exit" /\ pending = "Exception" /\ raised = None
              \/ pc = "raised" /\ raised = "Exception"

\* C5 witness: 120 chunks, the failure on batch 2 of 3, the run ended
C5_Witness ==
    /\ pc = "raised"
    /\ Len(chunks) = 120
    /\ err_log = <<[batch_num |-> 2, num_batches |-> 3]>>
    /\ calls = <<1, 2>>
    /\ Len(stored) = 1
    /\ Len(stored[1]) = 50

\* C6: a run that reaches the end of the batch loop called add_documents once per batch,
\* for the batches 1..ceil(total / 50) in order; no batch is empty, each has 50 chunks
\* but possibly the last, and the batches joined are the chunk list.
C6_Batches ==
    pc = "finished" =>
        /\ err_log = <<>>
        /\ calls = Upto(CeilDiv(Len(chunks), EMBED_BATCH_SIZE))
        /\ Len(stored) = Len(calls)
        /\ \A k \in 1..Len(stored) :
              /\ stored[k] # <<>>
              /\ Len(stored[k]) <= 50
              /\ k < Len(stored) => Len(stored[k]) = 50
        /\ Join(stored) = chunks
        /\ [k \in 1..Len(done_log) |-> done_log[k].batch_num] = calls

\* C6 witness: 120 chunks stored as batches of 50, 50 and 20
C6_Witness ==
    /\ pc = "finished"
    /\ Len(chunks) = 120
    /\ [k \in 1..Len(stored) |-> Len(stored[k])] = <<50, 50, 20>>

\* C7: when the load returned no document, run_pipeline has returned without an
\* exception, with no chunk, no add_documents call and neither collaborator constructed.
C7_EmptyLoad ==
    /\ (pc \notin {"start", "load", "load_exit"} /\ raised = None /\ docs = <<>>) =>
          pc = "returned"
    /\ pc = "returned" =>
          /\ docs = <<>>
          /\ raised = None
          /\ chunks = <<>>
          /\ calls = <<>>
          /\ stored = <<>>
          /\ built = {}

\* C7 witness: an empty load, run_pipeline has returned
C7_Witness == pc = "returned" /\ docs = <<>> /\ Len(threads) = 1

\* how many chunks of the result come from input chunk p
CountFor(p) ==
    IF Len(split_chunks[p].page_content) <= max_chars THEN 1
    ELSE Len(SelectSeq(WindowsAt(split_chunks[p].page_content, max_chars), SomeNonBlank))

\* the input chunk each chunk of the result comes from
ParentSeq == Join([p \in 1..Len(split_chunks) |-> Rep(p, CountFor(p))])

In_Block == pc \in {"load", "load_exit", "add", "batch_exit"}

\* the wrapped call is running
In_Call == pc \in {"load", "add"}

\* C9 (scope): one thread is started per with block (the load, each batch), it is
\* started and its flag unset while the wrapped call runs, and outside the block, however
\* it was left, the flag of every thread is set.
C9_Scoped ==
    /\ pc = "start" => threads = <<>>
    /\ pc # "start" => Len(threads) = 1 + Len(calls) + (IF pc = "add" THEN 1 ELSE 0)
    /\ In_Block =>
          /\ threads[Current].block = (IF pc \in {"load", "load_exit"} THEN 0 ELSE BatchNum)
          /\ ~threads[Current].stop
    /\ In_Call => threads[Current].st \in {"wait", "print"}
    /\ \A t \in 1..Len(threads) : (t < Current \/ ~In_Block) => threads[t].stop
    /\ pc \in {"raised", "returned", "finished"} =>
          \A t \in 1..Len(threads) : threads[t].stop

\* C9: the scope above holds throughout, and a thread whose flag is set terminates.
C9_Heartbeat ==
    /\ []C9_Scoped
    /\ \A t \in 1..MaxThreads :
          (t <= Len(threads) /\ threads[t].stop) ~> (t <= Len(threads) /\ threads[t].st = "done")

\* C9 witness: a batch failed, the block was left by the exception, every thread ended
C9_Witness ==
    /\ pc = "raised"
    /\ raised = "Exception"
    /\ Len(threads) >= 2
    /\ \A t \in 1..Len(threads) : threads[t].stop /\ threads[t].st = "done"

\* C10: no heartbeat message is printed by a thread whose block has been left.
C10_NoLateHeartbeat ==
    [][\A t \in 1..Len(threads) :
          (threads[t].st = "print" /\ threads'[t].st = "wait") => ~threads[t].stop]_vars

\* the chunks of the list at line 140 that are longer than max_chars (0-based)
TooLong == {k \in 0..(Len(chunks) - 1) : Len(chunks[k + 1].page_content) > max_chars}

\* C11: when a chunk longer than max_chars is in the list after the re-split, the check of
\* lines 141-146 ends the run with an AssertionError whose index list is not empty and
\* holds offending chunks only, neither the embedding model nor the vector store has
\* been constructed, and add_documents is never called; every chunk ever handed to
\* add_documents has at most max_chars characters.
C11_FatalOversize ==
    /\ (Assert_Done /\ TooLong # {}) =>
          /\ pc = "raised"
          /\ raised = "AssertionError"
          /\ oversize = TooLong
          /\ built = {}
          /\ calls = <<>>
          /\ stored = <<>>
          /\ threads = <<>>
    /\ raised = "AssertionError" => TooLong # {}
    /\ \A b \in 1..Len(stored) : \A k \in 1..Len(stored[b]) :
          Len(stored[b][k].page_content) <= max_chars

\* C11 witness: a list whose second chunk alone is too long has been checked and the run
\* ended with the AssertionError naming index 1
C11_Witness ==
    /\ pc = "raised"
    /\ raised = "AssertionError"
    /\ Len(chunks) >= 2
    /\ oversize = {1}

\* the last call run_pipeline made
LastStep == IF steps = <<>> THEN None ELSE steps[Len(steps)]

\* the run ended with a configuration error: the ValueError of a source entry without its
\* required field (loaders.py:82-131) or of an unsupported EMBEDDING_PROVIDER (store.py:40)
ConfigError ==
    /\ pc = "raised"
    /\ raised = "ValueError"
    /\ LastStep \in {"load", "get_embedding_model"}

\* C12: a run that ended with a configuration error has made neither the call of
\* _chunk_documents_with_language_awareness nor that of _resplit_oversize_chunks, and has
\* made no call twice.
C12_FailFast ==
    ConfigError =>
        /\ \A k \in 1..Len(steps) : steps[k] \notin {"chunk", "resplit"}
        /\ \A j, k \in 1..Len(steps) : steps[j] = steps[k] => j = k

\* d.get(k) as a text: empty when the key is missing or None
FieldText(d, k) == IF k \in DOMAIN d THEN (IF d[k] = None THEN <<>> ELSE d[k]) ELSE <<>>

\* the extension read off source: the lower-cased text after the last ".", up to the
\* first "/" or "?", behind a "."; empty when source has no "."
DerivedExt(d) ==
    LET src == Strip(FieldText(d, "source"))
        dots == {k \in 1..Len(src) : src[k] = "."}
    IN IF dots = {} THEN <<>>
       ELSE LET last == CHOOSE k \in dots : \A j \in dots : j <= k
                after == [k \in 1..(Len(src) - last) |-> src[last + k]]
                stops == {k \in 1..Len(after) : after[k] \in {"/", "?"}}
                n == IF stops = {} THEN Len(after)
                     ELSE (CHOOSE k \in stops : \A j \in stops : k <= j) - 1
            IN <<".">> \o Lower([k \in 1..n |-> after[k]])

\* the language of an extension: Markdown, RST or None
LanguageOf(ext) ==
    IF ext \in {<<".", "m", "d">>, <<".", "m", "a", "r", "k", "d", "o", "w", "n">>}
    THEN "MARKDOWN"
    ELSE IF ext = <<".", "r", "s", "t">> THEN "RST"
    ELSE None

\* the call has returned
Language_Done == pc = "language_done" /\ Len(lang_calls) = 1

Chunk_Done == \E k \in 1..Len(steps) : steps[k] = "chunk"

\* the extension inferred for document d
InferredExt(d) ==
    LET m == heap[docs[d].metadata]
        fe == Strip(FieldText(m, "file_extension"))
    IN IF fe # <<>> THEN Lower(fe) ELSE DerivedExt(m)

\* the language key of document d
KeyOf(d) == IF LanguageOf(InferredExt(d)) = None THEN "default" ELSE LanguageOf(InferredExt(d))

\* the groups document d is in
GroupsOf(d) ==
    {n \in 1..Len(by_lang) : \E j \in 1..Len(by_lang[n].group) : by_lang[n].group[j] = d}

\* the group of document d
GroupOf(d) == CHOOSE n \in 1..Len(by_lang) : n \in GroupsOf(d)

\* the document chunk j of the splitting step was cut from
DocOf(j) == heap[split_chunks[j].metadata].source_id

\* C14: after the grouping every document is in exactly one group, the one of its
\* language key; no two groups share a key; a group lists its documents once each in
\* input order; each group has one splitter, the language splitter of its key or the
\* default one, with the run's chunk size and overlap, so documents with the same
\* inferred extension get the same splitter; and the chunks come group by group, within
\* a group in document order.
C14_Grouping ==
    Chunk_Done =>
        /\ \A d \in 1..Len(docs) :
              /\ Cardinality(GroupsOf(d)) = 1
              /\ by_lang[GroupOf(d)].key = KeyOf(d)
        /\ \A m, n \in 1..Len(by_lang) : by_lang[m].key = by_lang[n].key => m = n
        /\ \A n \in 1..Len(by_lang) :
              /\ by_lang[n].group # <<>>
              /\ \A j, k \in 1..Len(by_lang[n].group) :
                    /\ by_lang[n].group[j] \in 1..Len(docs)
                    /\ j < k => by_lang[n].group[j] < by_lang[n].group[k]
              /\ by_lang[n].splitter =
                    [separators |-> by_lang[n].key, chunk_size |-> Size,
                     chunk_overlap |-> Overlap]
        /\ \A d, e \in 1..Len(docs) :
              InferredExt(d) = InferredExt(e) =>
                  by_lang[GroupOf(d)].splitter = by_lang[GroupOf(e)].splitter
        /\ \A j, k \in 1..Len(split_chunks) :
              j < k => \/ GroupOf(DocOf(j)) < GroupOf(DocOf(k))
                       \/ GroupOf(DocOf(j)) = GroupOf(DocOf(k)) /\ DocOf(j) <= DocOf(k)

\* C14 witness: four documents, Markdown, default, Markdown again (by its URL) and RST,
\* grouped as (1, 3), (2), (4) and split in that order
C14_Witness ==
    /\ Chunk_Done
    /\ Len(docs) = 4
    /\ [n \in 1..Len(by_lang) |-> by_lang[n].key] = <<"MARKDOWN", "default", "RST">>
    /\ [n \in 1..Len(by_lang) |-> by_lang[n].group] = <<(<<1, 3>>), (<<2>>), (<<4>>)>>
    /\ InferredExt(1) # <<>>
    /\ "file_extension" \notin DOMAIN heap[docs[3].metadata]
    /\ [j \in 1..Len(split_chunks) |-> DocOf(j)] = <<1, 3, 2, 4>>

\* what input chunk p turns into: itself when it fits, else its windows at 0, max_chars,
\* 2*max_chars, ... in that order, without the all-whitespace ones
ExpectedFor(p) ==
    IF Len(split_chunks[p].page_content) <= max_chars THEN <<split_chunks[p].page_content>>
    ELSE SelectSeq(WindowsAt(split_chunks[p].page_content, max_chars), SomeNonBlank)

\* C15: in the list _resplit_oversize_chunks returns the pieces of input chunk p come
\* before those of input chunk q whenever p < q, the slices of an oversize chunk come in
\* increasing offset order, and a chunk that fits is the Document it was: the texts of
\* the result are those of the input chunks, each replaced by its pieces, in input order.
C15_OrderPreserved ==
    (Resplit_Done /\ mutated = 0) =>
        /\ \A j, k \in 1..Len(chunks) :
              j < k => heap[chunks[j].metadata].source_id <= heap[chunks[k].metadata].source_id
        /\ [j \in 1..Len(chunks) |-> chunks[j].page_content] =
              Join([p \in 1..Len(split_chunks) |-> ExpectedFor(p)])
        /\ \A j \in 1..Len(chunks) :
              ParentSeq[j] \notin OversizeInputs => chunks[j] = split_chunks[ParentSeq[j]]

\* C15 witness: the list ("ab", "a") under max_chars = 1 came back as ("a", "b", "a")
C15_Witness ==
    /\ Resplit_Done
    /\ max_chars = 1
    /\ [p \in 1..Len(split_chunks) |-> split_chunks[p].page_content] = <<(<<"a", "b">>), (<<"a">>)>>
    /\ [j \in 1..Len(chunks) |-> chunks[j].page_content] = <<(<<"a">>), (<<"b">>), (<<"a">>)>>
    /\ [j \in 1..Len(chunks) |-> heap[chunks[j].metadata].source_id] = <<1, 1, 2>>

====
